---- MODULE Spec2Model ----
(***************************************************************************)
(* A model of the interlayer-potential (ILP) force evaluation of GPUMD,    *)
(* src/src/force/ilp.cu: ILP::compute and its four kernels ILP_neighbor,   *)
(* init_ILP_temp_data, gpu_find_force and reduce_force_many_body.          *)
(*                                                                         *)
(* Numbers.  Positions are integer lattice points, so bond vectors,        *)
(* squared distances and cross products are exact integers.  The scalar    *)
(* factors the code obtains from sqrt, expf and division (the taper, the   *)
(* van-der-Waals and the repulsive factors) are kept as uninterpreted      *)
(* terms: a Key names the factor and the integer arguments it is computed  *)
(* from.  A double that the code builds as  sum_k factor_k * vector_k  is  *)
(* a Form: a function from Keys to integer coefficient tuples, stored in   *)
(* units of 1/2 (the code multiplies by 0.5), with zero coefficients      *)
(* dropped.  Two Forms are equal exactly when the doubles are equal for    *)
(* every value of the factors.                                             *)
(***************************************************************************)
EXTENDS Integers, Sequences, FiniteSets, TLC

\* ilp.cuh: capacity of the secondary neighbor list (ilp.cu:85, 193, 612)
MAX_ILP_NEIGHBOR == 3

\* number of ILP::compute calls one behaviour makes
MaxCalls == 2

-----------------------------------------------------------------------------
(* integer vectors *)

Vec3(x, y, z) == <<x, y, z>>
ZeroVec == <<0, 0, 0>>
VAdd(a, b) == [i \in DOMAIN a |-> a[i] + b[i]]
VSub(a, b) == [i \in DOMAIN a |-> a[i] - b[i]]
VScale(c, a) == [i \in DOMAIN a |-> c * a[i]]
Dot(a, b) == a[1] * b[1] + a[2] * b[2] + a[3] * b[3]
IsZeroTuple(a) == \A i \in DOMAIN a : a[i] = 0
ZeroMat == <<ZeroVec, ZeroVec, ZeroVec>>
\* M^T v: component ip is sum over id of M[id][ip] * v[id]
MatTVec(M, v) == [ip \in 1..3 |-> M[1][ip] * v[1] + M[2][ip] * v[2] + M[3][ip] * v[3]]

-----------------------------------------------------------------------------
(* Forms: sum over keys of factor(key) * coefficient / 2 *)

EmptyForm == [k \in {} |-> <<>>]

\* a scalar factor: its name, the parameter entry, the squared distance, the
\* integer products normal.del and normal.normal before normalisation, and the
\* power of 1/|normal| it carries
Key(name, pid, rsq, sdel, nn2, pow) ==
  <<name, pid, rsq, sdel, nn2, IF nn2 = 1 THEN 0 ELSE pow>>

FTerm(key, coeff) == IF IsZeroTuple(coeff) THEN EmptyForm ELSE (key :> coeff)

FAdd(f, g) ==
  LET D == DOMAIN f \cup DOMAIN g
      val(k) == IF k \in DOMAIN f
                THEN (IF k \in DOMAIN g THEN VAdd(f[k], g[k]) ELSE f[k])
                ELSE g[k]
      NZ == {k \in D : ~IsZeroTuple(val(k))}
  IN [k \in NZ |-> val(k)]

FScale(c, f) == IF c = 0 THEN EmptyForm ELSE [k \in DOMAIN f |-> VScale(c, f[k])]
FNeg(f) == FScale(-1, f)
FSub(f, g) == FAdd(f, FNeg(g))
\* multiplication by 0.5
FHalf(f) == [k \in DOMAIN f |-> [i \in DOMAIN f[k] |-> f[k][i] \div 2]]

\* x (*) f for an integer vector x and a force Form f: the nine products
\* (xx xy xz yx yy yz zx zy zz) the virial accumulates
Outer(x, f) ==
  LET val(k) == << x[1] * f[k][1], x[1] * f[k][2], x[1] * f[k][3],
                   x[2] * f[k][1], x[2] * f[k][2], x[2] * f[k][3],
                   x[3] * f[k][1], x[3] * f[k][2], x[3] * f[k][3] >>
      NZ == {k \in DOMAIN f : ~IsZeroTuple(val(k))}
  IN [k \in NZ |-> val(k)]

RECURSIVE FSum(_)
FSum(s) == IF s = <<>> THEN EmptyForm ELSE FAdd(Head(s), FSum(Tail(s)))

-----------------------------------------------------------------------------
(* geometry *)

\* box.cuh apply_mic for an orthogonal, fully periodic box of edge lengths L:
\* one fold of each component into the nearest image
MicFold(d, len) == IF 2 * d < -len THEN d + len
                   ELSE IF 2 * d > len THEN d - len
                   ELSE d
apply_mic(box, d) == [c \in 1..3 |-> MicFold(d[c], box[c])]

\* variant: the difference of the stored positions, without the fold
BondWithoutMic(box, pos, n1, n2) == VSub(pos[n2 + 1], pos[n1 + 1])

\* x12 = g_x[n2] - x1; ... ; apply_mic(box, x12, y12, z12)
Bond(box, pos, n1, n2) == apply_mic(box, VSub(pos[n2 + 1], pos[n1 + 1]))

\* the integer matrix  nn2 * dS - S (S^T dS):  the derivative of S / |S| is
\* this matrix times |S|^-3
NormDeriv(S, nn2, dS) ==
  [id \in 1..3 |-> [ip \in 1..3 |->
      nn2 * dS[id][ip]
      - S[id] * (S[1] * dS[1][ip] + S[2] * dS[2][ip] + S[3] * dS[3][ip])]]

MatAdd3(A, B, C) ==
  [id \in 1..3 |-> [ip \in 1..3 |-> A[id][ip] + B[id][ip] + C[id][ip]]]

\* variant: the cross product of the first two rows whatever the count
calc_normal_of_two_rows(vet, cont) ==
  [n |-> << vet[1][2] * vet[2][3] - vet[2][2] * vet[1][3],
            vet[1][3] * vet[2][1] - vet[2][3] * vet[1][1],
            vet[1][1] * vet[2][2] - vet[2][1] * vet[1][2] >>,
   nn2 |-> 1, dri |-> ZeroMat, dk |-> <<ZeroMat, ZeroMat, ZeroMat>>,
   dn1 |-> <<ZeroMat, ZeroMat, ZeroMat>>]

\* variant: a default normal along x
calc_normal_along_x(vet, cont) ==
  [n |-> <<1, 0, 0>>, nn2 |-> 1, dri |-> ZeroMat, dk |-> <<ZeroMat, ZeroMat, ZeroMat>>,
   dn1 |-> <<ZeroMat, ZeroMat, ZeroMat>>]

\* calc_normal.  vet: the three bond rows, cont: the number of valid rows.
\* The result is the normal as  n / sqrt(nn2)  with n an integer vector, and the
\* derivatives as integer matrices [id][ip] carrying the factor nn2^(-3/2):
\* dri w.r.t. the central atom, dk[m] w.r.t. neighbor m.  In the 3-bond branch
\* the code's factor continv = 1/3 cancels between n1 and nn, so n is the sum
\* of the three cross products.  dn1[m] is the code's dn1[id][ip][m], the
\* derivative of the un-normalized vector w.r.t. neighbor m, with the same
\* factor continv left out.
calc_normal(vet, cont) ==
  LET pv12 == << vet[1][2] * vet[2][3] - vet[2][2] * vet[1][3],
                 vet[1][3] * vet[2][1] - vet[2][3] * vet[1][1],
                 vet[1][1] * vet[2][2] - vet[2][1] * vet[1][2] >>
      dpvdri == << <<0, vet[1][3] - vet[2][3], vet[2][2] - vet[1][2]>>,
                   <<vet[2][3] - vet[1][3], 0, vet[1][1] - vet[2][1]>>,
                   <<vet[1][2] - vet[2][2], vet[2][1] - vet[1][1], 0>> >>
      dpv12k == << <<0, vet[2][3], -vet[2][2]>>,
                   <<-vet[2][3], 0, vet[2][1]>>,
                   <<vet[2][2], -vet[2][1], 0>> >>
      dpv12l == << <<0, -vet[1][3], vet[1][2]>>,
                   <<vet[1][3], 0, -vet[1][1]>>,
                   <<-vet[1][2], vet[1][1], 0>> >>
      pv31 == << vet[3][2] * vet[1][3] - vet[1][2] * vet[3][3],
                 vet[3][3] * vet[1][1] - vet[1][3] * vet[3][1],
                 vet[3][1] * vet[1][2] - vet[1][1] * vet[3][2] >>
      dpv31k == << <<0, -vet[3][3], vet[3][2]>>,
                   <<vet[3][3], 0, -vet[3][1]>>,
                   <<-vet[3][2], vet[3][1], 0>> >>
      dpv31n == << <<0, vet[1][3], -vet[1][2]>>,
                   <<-vet[1][3], 0, vet[1][1]>>,
                   <<vet[1][2], -vet[1][1], 0>> >>
      pv23 == << vet[2][2] * vet[3][3] - vet[3][2] * vet[2][3],
                 vet[2][3] * vet[3][1] - vet[3][3] * vet[2][1],
                 vet[2][1] * vet[3][2] - vet[3][1] * vet[2][2] >>
      dpv23l == << <<0, vet[3][3], -vet[3][2]>>,
                   <<-vet[3][3], 0, vet[3][1]>>,
                   <<vet[3][2], -vet[3][1], 0>> >>
      dpv23n == << <<0, -vet[2][3], vet[2][2]>>,
                   <<vet[2][3], 0, -vet[2][1]>>,
                   <<-vet[2][2], vet[2][1], 0>> >>
      n3 == VAdd(VAdd(pv12, pv31), pv23)
  IN IF cont <= 1 THEN
       [n |-> <<0, 0, 1>>, nn2 |-> 1, dri |-> ZeroMat,
        dk |-> <<ZeroMat, ZeroMat, ZeroMat>>,
        dn1 |-> <<ZeroMat, ZeroMat, ZeroMat>>]
     ELSE IF cont = 2 THEN
       [n |-> pv12, nn2 |-> Dot(pv12, pv12),
        dri |-> NormDeriv(pv12, Dot(pv12, pv12), dpvdri),
        dk |-> << NormDeriv(pv12, Dot(pv12, pv12), dpv12k),
                  NormDeriv(pv12, Dot(pv12, pv12), dpv12l),
                  NormDeriv(pv12, Dot(pv12, pv12), ZeroMat) >>,
        dn1 |-> <<dpv12k, dpv12l, ZeroMat>>]
     ELSE IF cont = 3 THEN
       [n |-> n3, nn2 |-> Dot(n3, n3), dri |-> ZeroMat,
        dk |-> << NormDeriv(n3, Dot(n3, n3), MatAdd3(dpv12k, ZeroMat, dpv31k)),
                  NormDeriv(n3, Dot(n3, n3), MatAdd3(dpv12l, dpv23l, ZeroMat)),
                  NormDeriv(n3, Dot(n3, n3), MatAdd3(ZeroMat, dpv23n, dpv31n)) >>,
        dn1 |-> << MatAdd3(dpv12k, ZeroMat, dpv31k),
                   MatAdd3(dpv12l, dpv23l, ZeroMat),
                   MatAdd3(ZeroMat, dpv23n, dpv31n) >>]
     ELSE
       \* too many neighbors: nothing is computed, the caller's zeros stay
       [n |-> ZeroVec, nn2 |-> 1, dri |-> ZeroMat,
        dk |-> <<ZeroMat, ZeroMat, ZeroMat>>,
        dn1 |-> <<ZeroMat, ZeroMat, ZeroMat>>]

-----------------------------------------------------------------------------
(* the parameter table and the simulated systems *)

\* one entry of ILP_Para for an ordered type pair, as the constructor stores
\* it: id stands for the physical constants (C, C_6, d, d_Seff, epsilon, z0,
\* lambda, delta2inv, S): two entries have equal constants iff equal ids
ParaEntry(id, rcutsq_ilp, rcut_global) ==
  [id |-> id, rcutsq_ilp |-> rcutsq_ilp, rcut_global |-> rcut_global]

\* every type pair reads the same record
SymmetricPara ==
  [tt \in {0, 1} \X {0, 1} |-> ParaEntry(1, 3, 3)]

\* the records of type pairs (0,1) and (1,0) differ
AsymmetricPara ==
  [tt \in {0, 1} \X {0, 1} |->
     IF tt = <<0, 1>> THEN ParaEntry(2, 3, 3)
     ELSE IF tt = <<1, 0>> THEN ParaEntry(3, 3, 2)
     ELSE ParaEntry(1, 3, 3)]

\* the secondary cutoffs of type pairs (0,1) and (1,0) differ
AsymmetricCutoffPara ==
  [tt \in {0, 1} \X {0, 1} |->
     IF tt = <<0, 1>> THEN ParaEntry(2, 3, 3)
     ELSE IF tt = <<1, 0>> THEN ParaEntry(4, 2, 3)
     ELSE ParaEntry(1, 3, 3)]

\* a system: atom count, owned range [N1, N2), box, types, group labels,
\* parameter table, and the position frames successive calls may see
Systems ==
  << \* two atoms in different groups, one type
     [N |-> 2, N1 |-> 0, N2 |-> 2, box |-> <<7, 7, 7>>,
      type |-> <<0, 0>>, label |-> <<0, 1>>, para |-> SymmetricPara,
      frames |-> { << <<0, 0, 0>>, <<0, 0, 2>> >>,
                   << <<6, 1, 0>>, <<0, 1, 2>> >>,
                   << <<1, 1, 1>>, <<3, 3, 3>> >> }],
     \* two atoms in different groups, two types with differing records
     [N |-> 2, N1 |-> 0, N2 |-> 2, box |-> <<7, 7, 7>>,
      type |-> <<0, 1>>, label |-> <<0, 1>>, para |-> AsymmetricPara,
      frames |-> { << <<0, 0, 0>>, <<1, 0, 1>> >>,
                   << <<0, 0, 0>>, <<0, 0, 2>> >> }],
     \* a layer of four atoms (atom 0 has three bonds) and one atom above it
     [N |-> 5, N1 |-> 0, N2 |-> 5, box |-> <<7, 7, 7>>,
      type |-> <<0, 0, 0, 0, 1>>, label |-> <<0, 0, 0, 0, 1>>,
      para |-> SymmetricPara,
      frames |-> { << <<2, 2, 0>>, <<3, 2, 0>>, <<2, 3, 0>>, <<1, 1, 0>>, <<2, 2, 2>> >>,
                   << <<2, 2, 0>>, <<3, 2, 0>>, <<2, 3, 1>>, <<1, 1, 0>>, <<3, 2, 2>> >> }],
     \* atom 0 is not owned; atoms 1, 2 share a layer, atom 3 is above
     [N |-> 4, N1 |-> 1, N2 |-> 4, box |-> <<7, 7, 7>>,
      type |-> <<0, 0, 1, 0>>, label |-> <<0, 0, 0, 1>>, para |-> AsymmetricPara,
      frames |-> { << <<0, 0, 0>>, <<1, 0, 0>>, <<2, 0, 0>>, <<1, 0, 1>> >>,
                   << <<0, 0, 0>>, <<1, 0, 0>>, <<1, 1, 0>>, <<2, 1, 1>> >> }],
     \* five atoms of one group: atom 0 has four neighbors within rcut_ilp
     [N |-> 5, N1 |-> 0, N2 |-> 5, box |-> <<7, 7, 7>>,
      type |-> <<0, 0, 0, 0, 0>>, label |-> <<0, 0, 0, 0, 0>>,
      para |-> SymmetricPara,
      frames |-> { << <<2, 2, 0>>, <<3, 2, 0>>, <<1, 2, 0>>, <<2, 3, 0>>, <<2, 1, 0>> >> }],
     \* atom 1 (type 0) keeps atom 0 (type 1) as a secondary neighbor, atom 0
     \* keeps atoms 2 and 3 but not atom 1; atom 4 is in the layer above
     [N |-> 5, N1 |-> 0, N2 |-> 5, box |-> <<7, 7, 7>>,
      type |-> <<1, 0, 1, 1, 0>>, label |-> <<0, 0, 0, 0, 1>>,
      para |-> AsymmetricCutoffPara,
      frames |-> { << <<1, 1, 0>>, <<0, 0, 0>>, <<1, 2, 0>>, <<2, 1, 0>>, <<2, 2, 2>> >> }]
  >>

Atoms(s) == 0..(s.N - 1)
Owned(s) == s.N1..(s.N2 - 1)
TypeOf(s, n) == s.type[n + 1]
Para(s, n1, n2) == s.para[<<TypeOf(s, n1), TypeOf(s, n2)>>]

\* ILP::ILP: rc is the largest rcut_global of the table
RcOf(s) ==
  LET R == {s.para[tt].rcut_global : tt \in DOMAIN s.para}
  IN CHOOSE r \in R : \A q \in R : q <= r

\* ILP::ILP: max_neighbor_number = min(num_atoms, CUDA_MAX_NL); the systems
\* here have fewer atoms than CUDA_MAX_NL
MaxNeighborNumber(s) == s.N

RECURSIVE SortedSeq(_)
SortedSeq(S) ==
  IF S = {} THEN <<>>
  ELSE LET m == CHOOSE x \in S : \A y \in S : x <= y
       IN <<m>> \o SortedSeq(S \ {m})

\* neighbor.cu find_neighbor: for each owned atom the owned atoms other than
\* itself closer than rc, in ascending index order
NeighborsWithin(s, pos, n1) ==
  SortedSeq({n2 \in Owned(s) :
               /\ n2 # n1
               /\ LET d == Bond(s.box, pos, n1, n2)
                  IN Dot(d, d) < RcOf(s) * RcOf(s)})

find_neighbor_NN(s, pos) ==
  [n \in Atoms(s) |-> IF n \in Owned(s) THEN Len(NeighborsWithin(s, pos, n)) ELSE 0]

find_neighbor_NL(s, pos) ==
  [idx \in 0..(s.N * MaxNeighborNumber(s) - 1) |->
     LET n1 == idx % s.N
         i1 == idx \div s.N
     IN IF n1 \in Owned(s) /\ i1 < Len(NeighborsWithin(s, pos, n1))
        THEN NeighborsWithin(s, pos, n1)[i1 + 1]
        ELSE 0]

-----------------------------------------------------------------------------
(* the kernels, one per-atom worker each.  mem is the device memory they    *)
(* share: [ilp_NN, ilp_NL, f12, f12_ilp_neigh, g_f, g_virial, g_potential,  *)
(* oob]; arrays are functions of the flat 0-based index the code computes.  *)

LabelOf(s, n) == s.label[n + 1]

\* variant: a filter that keeps the neighbors carrying label 0
KeepsNeighborOfLayerZero(s, pos, n1, n2) ==
  /\ LabelOf(s, n2) = 0
  /\ Dot(Bond(s.box, pos, n1, n2), Bond(s.box, pos, n1, n2)) < Para(s, n1, n2).rcutsq_ilp
  /\ n2 # n1

\* ILP_neighbor, the filter of line 185
KeepsNeighbor(s, pos, n1, n2) ==
  LET d12 == Bond(s.box, pos, n1, n2)
      d12sq == Dot(d12, d12)
  IN /\ LabelOf(s, n1) = LabelOf(s, n2)
     /\ d12sq < Para(s, n1, n2).rcutsq_ilp
     /\ d12sq # 0

\* ILP_neighbor, the loop of lines 173-188: the general neighbors kept, in order
RECURSIVE FilterNeighbors(_, _, _, _, _, _)
FilterNeighbors(s, pos, NN, NL, n1, i1) ==
  IF i1 >= NN[n1] THEN <<>>
  ELSE LET n2 == NL[n1 + s.N * i1]
       IN (IF KeepsNeighbor(s, pos, n1, n2) THEN <<n2>> ELSE <<>>)
          \o FilterNeighbors(s, pos, NN, NL, n1, i1 + 1)

\* the slot an entry number k (0-based) of atom n1 is stored in
IlpSlot(s, n1, k) == k * s.N + n1
IlpListSize(s) == s.N * MAX_ILP_NEIGHBOR

\* ILP_neighbor, lines 186-200, for the kept neighbors of atom n1: each is
\* stored at slot count++, the count is stored as it is, and a count above the
\* capacity reads slots 0..3
StoreNeighbors(s, mem, n1, kept) ==
  [mem EXCEPT
     !.ilp_NL = [idx \in DOMAIN mem.ilp_NL |->
                   IF idx % s.N = n1 /\ (idx \div s.N) < Len(kept)
                   THEN kept[(idx \div s.N) + 1]
                   ELSE mem.ilp_NL[idx]],
     !.ilp_NN = [mem.ilp_NN EXCEPT ![n1] = Len(kept)],
     !.oob = mem.oob
             \cup {<<"ilp_NL", "write", n1, k>> :
                     k \in {j \in 0..(Len(kept) - 1) : IlpSlot(s, n1, j) >= IlpListSize(s)}}
             \cup (IF Len(kept) > MAX_ILP_NEIGHBOR
                   THEN {<<"ilp_NL", "read", n1, k>> :
                           k \in {j \in 0..3 : IlpSlot(s, n1, j) >= IlpListSize(s)}}
                   ELSE {})]

ILP_neighbor(s, pos, NN, NL, mem, n1) ==
  StoreNeighbors(s, mem, n1, FilterNeighbors(s, pos, NN, NL, n1, 0))

\* init_ILP_temp_data for atom n1: the three many-body slots of n1 become 0
init_ILP_temp_data(s, mem, n1) ==
  [mem EXCEPT
     !.f12_ilp_neigh = [idx \in DOMAIN mem.f12_ilp_neigh |->
                          IF idx \in {n1, n1 + s.N, n1 + s.N + s.N}
                          THEN EmptyForm
                          ELSE mem.f12_ilp_neigh[idx]]]

\* gpu_find_force, lines 656-671: the bond rows vet of atom n1
BondRows(s, pos, mem, n1) ==
  [m \in 1..3 |-> IF m <= mem.ilp_NN[n1]
                  THEN Bond(s.box, pos, n1, mem.ilp_NL[n1 + s.N * (m - 1)])
                  ELSE ZeroVec]

\* gpu_find_force, line 691: the pairs the force kernel skips
SkipsPair(s, pos, n1, n2) ==
  \/ Dot(Bond(s.box, pos, n1, n2), Bond(s.box, pos, n1, n2))
       >= Para(s, n1, n2).rcut_global * Para(s, n1, n2).rcut_global
  \/ LabelOf(s, n1) = LabelOf(s, n2)

\* the parameter record a pair's factors are computed from
PairId(s, n1, n2) == <<Para(s, n1, n2).id, Para(s, n1, n2).rcut_global>>

\* the factors of the repulsive term for bond x12 and normal nrm: they depend
\* on r and on rhosq1 = rsq - prodnorm1^2, prodnorm1 = (nrm.n . del)/sqrt(nrm.nn2)
RepKey(name, pid, x12, nrm, pow) ==
  Key(name, pid, Dot(x12, x12), Dot(nrm.n, x12) * Dot(nrm.n, x12), nrm.nn2, pow)

\* lines 718-720: f12 = -f2_vdW * x12 * 0.5
VdwF12(pid, x12) == FTerm(Key("f2_vdW", pid, Dot(x12, x12), 0, 1, 0), VScale(-1, x12))

\* lines 811-813: fkc = (del * fsum - fp1) * Tap - Vilp * dTap * rinv * del,
\* with del = -x12 and fp1 = prodnorm1 * fpair1 * normal
Fkc(pid, x12, nrm) ==
  FAdd(FTerm(RepKey("fsum_Tap_minus_Vilp_dTap_rinv", pid, x12, nrm, 0), VScale(-2, x12)),
       FTerm(RepKey("fpair1_Tap", pid, x12, nrm, 2), VScale(2 * Dot(nrm.n, x12), nrm.n)))

\* lines 789-806: fprod1 * Tap = prodnorm1 * fpair1 * Tap * (dnormdri^T del)
FprodTap(pid, x12, nrm) ==
  FTerm(RepKey("fpair1_Tap", pid, x12, nrm, 4),
        VScale(2 * Dot(nrm.n, x12), MatTVec(nrm.dri, x12)))

\* lines 827-844: fk = -prodnorm1 * fpair1 * Tap * (dnormal[..][..][kk]^T del)
Fk(pid, x12, nrm, cnt) ==
  [kk \in 1..3 |->
     IF kk <= cnt
     THEN FTerm(RepKey("fpair1_Tap", pid, x12, nrm, 4),
                VScale(-2 * Dot(nrm.n, x12), MatTVec(nrm.dk[kk], x12)))
     ELSE EmptyForm]

\* lines 725-887: what one unskipped neighbor adds to s_fx.., s_pe, s_sxx..
\* and fk_temp, and the fkc it stores, given f12, fkc, fprod1 * Tap and fk
PairRecord(pid, x12, nrm, vet, f12, fkc, fprodTap, fk) ==
  [f |-> FAdd(FSub(f12, FNeg(f12)), FSub(fkc, fprodTap)),
   vdw |-> FSub(f12, FNeg(f12)),
   pe_vdw |-> FTerm(Key("p2_vdW", pid, Dot(x12, x12), 0, 1, 0), <<1>>),
   pe_rep |-> FTerm(RepKey("Tap_Vilp", pid, x12, nrm, 0), <<2>>),
   vir |-> FSum(<< Outer(x12, FNeg(f12)),
                   FHalf(Outer(vet[1], fk[1])),
                   FHalf(Outer(vet[2], fk[2])),
                   FHalf(Outer(vet[3], fk[3])),
                   FHalf(Outer(VScale(-1, x12), fkc)) >>),
   fkc |-> fkc,
   fk |-> fk]

PairTerms(pid, x12, nrm, vet, cnt) ==
  PairRecord(pid, x12, nrm, vet, VdwF12(pid, x12), Fkc(pid, x12, nrm),
             FprodTap(pid, x12, nrm), Fk(pid, x12, nrm, cnt))

NoTerms ==
  [f |-> EmptyForm, pe |-> EmptyForm, vir |-> EmptyForm,
   fk |-> <<EmptyForm, EmptyForm, EmptyForm>>, slots |-> <<>>]

\* lines 725-729, 815-817, 823-825, 849-851, 868-887: the sums after one more
\* unskipped neighbor at list entry i1
AddTerms(i1, t, rest) ==
  [f |-> FAdd(t.f, rest.f),
   pe |-> FAdd(FAdd(t.pe_vdw, t.pe_rep), rest.pe),
   vir |-> FAdd(t.vir, rest.vir),
   fk |-> [kk \in 1..3 |-> FAdd(t.fk[kk], rest.fk[kk])],
   slots |-> (i1 :> t.fkc) @@ rest.slots]

\* gpu_find_force, the loop of lines 676-888 from list entry i1 on: the sums
\* s_fx.., s_pe, s_sxx.., fk_temp, and the pairwise slots written (entry -> fkc)
RECURSIVE ForceSums(_, _, _, _, _, _, _, _, _)
ForceSums(s, pos, NN, NL, n1, vet, nrm, cnt, i1) ==
  IF i1 >= NN[n1] THEN NoTerms
  ELSE IF SkipsPair(s, pos, n1, NL[n1 + s.N * i1])
       THEN ForceSums(s, pos, NN, NL, n1, vet, nrm, cnt, i1 + 1)
       ELSE AddTerms(i1,
                     PairTerms(PairId(s, n1, NL[n1 + s.N * i1]),
                               Bond(s.box, pos, n1, NL[n1 + s.N * i1]),
                               nrm, vet, cnt),
                     ForceSums(s, pos, NN, NL, n1, vet, nrm, cnt, i1 + 1))

\* variant: stores that overwrite the three output arrays
StoreForceOverwriting(s, mem, n1, sums) ==
  [mem EXCEPT
     !.g_f = [mem.g_f EXCEPT ![n1] = sums.f],
     !.f12 = [idx \in DOMAIN mem.f12 |->
                IF idx % s.N = n1 /\ (idx \div s.N) \in DOMAIN sums.slots
                THEN sums.slots[idx \div s.N]
                ELSE mem.f12[idx]],
     !.f12_ilp_neigh = [idx \in DOMAIN mem.f12_ilp_neigh |->
                          IF idx % s.N = n1
                          THEN sums.fk[(idx \div s.N) + 1]
                          ELSE mem.f12_ilp_neigh[idx]],
     !.g_virial = [mem.g_virial EXCEPT ![n1] = sums.vir],
     !.g_potential = [mem.g_potential EXCEPT ![n1] = sums.pe]]

\* gpu_find_force, lines 823-825 and 890-919: the stores of atom n1.
\* g_virial[n1] holds the nine sums in the order xx xy xz yx yy yz zx zy zz.
StoreForce(s, mem, n1, sums) ==
  [mem EXCEPT
     !.g_f = [mem.g_f EXCEPT ![n1] = FAdd(@, sums.f)],
     !.f12 = [idx \in DOMAIN mem.f12 |->
                IF idx % s.N = n1 /\ (idx \div s.N) \in DOMAIN sums.slots
                THEN sums.slots[idx \div s.N]
                ELSE mem.f12[idx]],
     !.f12_ilp_neigh = [idx \in DOMAIN mem.f12_ilp_neigh |->
                          IF idx % s.N = n1
                          THEN sums.fk[(idx \div s.N) + 1]
                          ELSE mem.f12_ilp_neigh[idx]],
     !.g_virial = [mem.g_virial EXCEPT ![n1] = FAdd(@, sums.vir)],
     !.g_potential = [mem.g_potential EXCEPT ![n1] = FAdd(@, sums.pe)]]

ForceFromRows(s, pos, NN, NL, mem, n1, vet) ==
  StoreForce(s, mem, n1,
             ForceSums(s, pos, NN, NL, n1, vet,
                       calc_normal(vet, mem.ilp_NN[n1]), mem.ilp_NN[n1], 0))

\* gpu_find_force for atom n1
gpu_find_force(s, pos, NN, NL, mem, n1) ==
  ForceFromRows(s, pos, NN, NL, mem, n1, BondRows(s, pos, mem, n1))

\* reduce_force_many_body, lines 988-1003: the search for n1 in the general
\* list of n2; the result is the last midpoint m
RECURSIVE BinarySearch(_, _, _, _, _, _, _)
BinarySearch(s, NL, n1, n2, l, r, m) ==
  IF l < r
  THEN IF NL[n2 + s.N * ((l + r) \div 2)] > n1
       THEN BinarySearch(s, NL, n1, n2, l, ((l + r) \div 2) - 1, (l + r) \div 2)
       ELSE IF NL[n2 + s.N * ((l + r) \div 2)] < n1
       THEN BinarySearch(s, NL, n1, n2, ((l + r) \div 2) + 1, r, (l + r) \div 2)
       ELSE (l + r) \div 2
  ELSE m

\* the offset of the pairwise slot atom n1 reads from atom n2
PairOffset(s, NN, NL, n1, n2) == BinarySearch(s, NL, n1, n2, 0, NN[n2], 0)

\* reduce_force_many_body, lines 1030-1043: the slots k < g_neighbor_number[n2]
\* of n2's secondary list inspected for n1, up to the first match
IlpProbes(s, NN, mem, n1, n2) ==
  {k \in 0..(NN[n2] - 1) :
     \A j \in 0..(k - 1) :
        IlpSlot(s, n2, j) < IlpListSize(s) => mem.ilp_NL[IlpSlot(s, n2, j)] # n1}

MinOrZero(hits) == IF hits = {} THEN 0 ELSE CHOOSE k \in hits : \A j \in hits : k <= j

\* the first inspected slot holding n1, or 0
IlpOffset(s, NN, mem, n1, n2) ==
  MinOrZero({k \in IlpProbes(s, NN, mem, n1, n2) :
               /\ IlpSlot(s, n2, k) < IlpListSize(s)
               /\ mem.ilp_NL[IlpSlot(s, n2, k)] = n1})

\* lines 1005-1022: the reciprocal pairwise force f21 is subtracted
PairPickup(x12, f21, rest) ==
  [f |-> FAdd(FNeg(f21), rest.f),
   vir |-> FAdd(FHalf(Outer(x12, f21)), rest.vir)]

\* reduce_force_many_body, the loop of lines 970-1023 from list entry i1 on
RECURSIVE PairReduction(_, _, _, _, _, _, _)
PairReduction(s, pos, NN, NL, mem, n1, i1) ==
  IF i1 >= NN[n1] THEN [f |-> EmptyForm, vir |-> EmptyForm]
  ELSE PairPickup(Bond(s.box, pos, n1, NL[n1 + s.N * i1]),
                  mem.f12[NL[n1 + s.N * i1]
                          + s.N * PairOffset(s, NN, NL, n1, NL[n1 + s.N * i1])],
                  PairReduction(s, pos, NN, NL, mem, n1, i1 + 1))

\* lines 1045-1062: the many-body entry f21 is added
ManyBodyPickup(x12, f21, rest) ==
  [f |-> FAdd(f21, rest.f),
   vir |-> FAdd(FHalf(Outer(VScale(-1, x12), f21)), rest.vir)]

\* reduce_force_many_body, the loop of lines 1027-1063 from list entry i1 on
RECURSIVE ManyBodyReduction(_, _, _, _, _, _)
ManyBodyReduction(s, pos, NN, mem, n1, i1) ==
  IF i1 >= mem.ilp_NN[n1] THEN [f |-> EmptyForm, vir |-> EmptyForm]
  ELSE ManyBodyPickup(Bond(s.box, pos, n1, mem.ilp_NL[n1 + s.N * i1]),
                      mem.f12_ilp_neigh[mem.ilp_NL[n1 + s.N * i1]
                         + s.N * IlpOffset(s, NN, mem, n1, mem.ilp_NL[n1 + s.N * i1])],
                      ManyBodyReduction(s, pos, NN, mem, n1, i1 + 1))

\* the secondary-list slots outside the array that the search of atom n1 reads
ReduceOutside(s, NN, mem, n1) ==
  {<<"ilp_NL", "read", nk[1], nk[2]>> :
     nk \in {nk \in Atoms(s) \X (0..s.N) :
               /\ \E i1 \in 0..(mem.ilp_NN[n1] - 1) : mem.ilp_NL[n1 + s.N * i1] = nk[1]
               /\ nk[2] \in IlpProbes(s, NN, mem, n1, nk[1])
               /\ IlpSlot(s, nk[1], nk[2]) >= IlpListSize(s)}}

\* reduce_force_many_body, lines 1065-1082: the stores of atom n1
StoreReduce(mem, n1, pair, many, outside) ==
  [mem EXCEPT
     !.g_f = [mem.g_f EXCEPT ![n1] = FAdd(@, FAdd(pair.f, many.f))],
     !.g_virial = [mem.g_virial EXCEPT ![n1] = FAdd(@, FAdd(pair.vir, many.vir))],
     !.oob = mem.oob \cup outside]

\* reduce_force_many_body for atom n1
reduce_force_many_body(s, pos, NN, NL, mem, n1) ==
  StoreReduce(mem, n1,
              PairReduction(s, pos, NN, NL, mem, n1, 0),
              ManyBodyReduction(s, pos, NN, mem, n1, 0),
              ReduceOutside(s, NN, mem, n1))

-----------------------------------------------------------------------------
(* the state *)

VARIABLES
  sys,             \* which system of Systems is simulated
  pos,             \* position_per_atom of the current call
  NN, NL,          \* ilp_data.NN, ilp_data.NL: the general neighbor list
  ilp_NN, ilp_NL,  \* ilp_data.ilp_NN, ilp_data.ilp_NL: the secondary list
  f12,             \* ilp_data.f12x/y/z: the pairwise buffer
  f12_ilp_neigh,   \* ilp_data.f12x/y/z_ilp_neigh: the many-body buffer
  g_f,             \* force_per_atom
  g_virial,        \* virial_per_atom
  g_potential,     \* potential_per_atom
  oob,             \* accesses made outside an array: <<array, kind, atom, slot>>
  pc,              \* where ILP::compute is
  fin,             \* per kernel of the current call, the atoms whose worker returned
  calls,           \* number of ILP::compute calls begun
  entry,           \* the buffers and output arrays as the current call found them
  call,            \* one call of a device or host function: unit, arg, res, returned
  heat             \* the Heat object of heat.cu and the run that drives it

vars == <<sys, pos, NN, NL, ilp_NN, ilp_NL, f12, f12_ilp_neigh, g_f, g_virial,
          g_potential, oob, pc, fin, calls, entry, call, heat>>

\* no function is being called on its own; no heat sampler exists
NoCall == [unit |-> "none", arg |-> <<>>, res |-> <<>>, returned |-> FALSE]
NoHeat == [pc |-> "none"]

S == Systems[sys]

Mem == [ilp_NN |-> ilp_NN, ilp_NL |-> ilp_NL, f12 |-> f12,
        f12_ilp_neigh |-> f12_ilp_neigh, g_f |-> g_f, g_virial |-> g_virial,
        g_potential |-> g_potential, oob |-> oob]

Stages == {"neighbor", "init", "force", "reduce"}
NoneFinished == [st \in Stages |-> {}]

\* a value nobody computed: what freshly allocated memory, or an output array
\* other potentials have added to, may hold
Foreign(name, idx, width) ==
  FTerm(Key(name, <<0, 0>>, idx, 0, 1, 0), [i \in 1..width |-> 2])

\* ILP::ILP: GPU_Vector::resize allocates the buffers and does not fill them
InitProgram ==
  /\ sys \in 1..Len(Systems)
  /\ pos = CHOOSE fr \in Systems[sys].frames : TRUE
  /\ NN = [n \in Atoms(Systems[sys]) |-> 0]
  /\ NL = [idx \in 0..(Systems[sys].N * MaxNeighborNumber(Systems[sys]) - 1) |-> 0]
  /\ ilp_NN = [n \in Atoms(Systems[sys]) |-> 0]
  /\ ilp_NL = [idx \in 0..(IlpListSize(Systems[sys]) - 1) |-> 0]
  /\ \E fresh \in BOOLEAN :
       /\ f12 = [idx \in 0..(Systems[sys].N * MaxNeighborNumber(Systems[sys]) - 1) |->
                   IF fresh THEN EmptyForm ELSE Foreign("uninitialized f12", idx, 3)]
       /\ f12_ilp_neigh = [idx \in 0..(IlpListSize(Systems[sys]) - 1) |->
                   IF fresh THEN EmptyForm ELSE Foreign("uninitialized f12_ilp_neigh", idx, 3)]
  /\ \E prior \in BOOLEAN :
       /\ g_f = [n \in Atoms(Systems[sys]) |->
                   IF prior THEN Foreign("other force", n, 3) ELSE EmptyForm]
       /\ g_virial = [n \in Atoms(Systems[sys]) |->
                   IF prior THEN Foreign("other virial", n, 9) ELSE EmptyForm]
       /\ g_potential = [n \in Atoms(Systems[sys]) |->
                   IF prior THEN Foreign("other potential", n, 1) ELSE EmptyForm]
  /\ oob = {}
  /\ pc = "idle"
  /\ fin = NoneFinished
  /\ calls = 0
  /\ entry = [f12 |-> f12, f12_ilp_neigh |-> f12_ilp_neigh, g_f |-> g_f,
              g_virial |-> g_virial, g_potential |-> g_potential]

Init ==
  /\ InitProgram
  /\ call = NoCall
  /\ heat = NoHeat

\* variant: a kernel may start while workers of the one before it still run
NoBarrier(stage) == TRUE

\* ILP::compute, lines 1151-1231: the kernels are launched one after the other
\* into the same stream, so a kernel starts when every worker of the kernel
\* launched before it has returned
StageComplete(stage) == fin[stage] = Owned(S)

SetMem(m) ==
  /\ ilp_NN' = m.ilp_NN
  /\ ilp_NL' = m.ilp_NL
  /\ f12' = m.f12
  /\ f12_ilp_neigh' = m.f12_ilp_neigh
  /\ g_f' = m.g_f
  /\ g_virial' = m.g_virial
  /\ g_potential' = m.g_potential
  /\ oob' = m.oob

\* ILP::compute up to the launch of ILP_neighbor (lines 1110-1155): the general
\* list is rebuilt, the secondary list is filled with 0
StartCompute ==
  /\ pc \in {"idle", "done"}
  /\ calls < MaxCalls
  /\ \E fr \in S.frames :
       /\ pos' = fr
       /\ NN' = find_neighbor_NN(S, fr)
       /\ NL' = find_neighbor_NL(S, fr)
  /\ ilp_NN' = [n \in Atoms(S) |-> 0]
  /\ ilp_NL' = [idx \in DOMAIN ilp_NL |-> 0]
  /\ pc' = "neighbor"
  /\ fin' = NoneFinished
  /\ calls' = calls + 1
  /\ entry' = [f12 |-> f12, f12_ilp_neigh |-> f12_ilp_neigh, g_f |-> g_f,
               g_virial |-> g_virial, g_potential |-> g_potential]
  /\ UNCHANGED <<sys, f12, f12_ilp_neigh, g_f, g_virial, g_potential, oob, call, heat>>

Worker(stage, n1, m) ==
  /\ pc = stage
  /\ n1 \in Owned(S) \ fin[stage]
  /\ SetMem(m)
  /\ fin' = [fin EXCEPT ![stage] = @ \cup {n1}]
  /\ UNCHANGED <<sys, pos, NN, NL, pc, calls, entry, call, heat>>

Launch(from, to) ==
  /\ pc = from
  /\ StageComplete(from)
  /\ pc' = to
  /\ UNCHANGED <<sys, pos, NN, NL, ilp_NN, ilp_NL, f12, f12_ilp_neigh, g_f,
                 g_virial, g_potential, oob, fin, calls, entry, call, heat>>

NeighborWorker(n1) == Worker("neighbor", n1, ILP_neighbor(S, pos, NN, NL, Mem, n1))
InitWorker(n1) == Worker("init", n1, init_ILP_temp_data(S, Mem, n1))
ForceWorker(n1) == Worker("force", n1, gpu_find_force(S, pos, NN, NL, Mem, n1))
ReduceWorker(n1) == Worker("reduce", n1, reduce_force_many_body(S, pos, NN, NL, Mem, n1))

\* once a worker has accessed memory outside an array the rest of the call is
\* undefined: the model stops there and says nothing about what follows
LaunchInit == oob = {} /\ Launch("neighbor", "init")
Overflowed == oob # {} /\ Launch("neighbor", "undefined")
LaunchForce == Launch("init", "force")
LaunchReduce == Launch("force", "reduce")
FinishCompute == Launch("reduce", "done")

Next ==
  \/ StartCompute
  \/ \E n1 \in Atoms(S) : NeighborWorker(n1)
  \/ LaunchInit
  \/ Overflowed
  \/ \E n1 \in Atoms(S) : InitWorker(n1)
  \/ LaunchForce
  \/ \E n1 \in Atoms(S) : ForceWorker(n1)
  \/ LaunchReduce
  \/ \E n1 \in Atoms(S) : ReduceWorker(n1)
  \/ FinishCompute

Spec == Init /\ [][Next]_vars

-----------------------------------------------------------------------------
(* ILP::compute as a function of its arguments and of the memory it finds:  *)
(* the four kernels, each run for the owned atoms in index order            *)

RECURSIVE RunNeighbor(_, _, _, _, _, _)
RunNeighbor(s, pos_, NN_, NL_, mem, n) ==
  IF n >= s.N2 THEN mem
  ELSE RunNeighbor(s, pos_, NN_, NL_, ILP_neighbor(s, pos_, NN_, NL_, mem, n), n + 1)

RECURSIVE RunInit(_, _, _)
RunInit(s, mem, n) ==
  IF n >= s.N2 THEN mem ELSE RunInit(s, init_ILP_temp_data(s, mem, n), n + 1)

RECURSIVE RunForce(_, _, _, _, _, _)
RunForce(s, pos_, NN_, NL_, mem, n) ==
  IF n >= s.N2 THEN mem
  ELSE RunForce(s, pos_, NN_, NL_, gpu_find_force(s, pos_, NN_, NL_, mem, n), n + 1)

RECURSIVE RunReduce(_, _, _, _, _, _)
RunReduce(s, pos_, NN_, NL_, mem, n) ==
  IF n >= s.N2 THEN mem
  ELSE RunReduce(s, pos_, NN_, NL_, reduce_force_many_body(s, pos_, NN_, NL_, mem, n), n + 1)

\* lines 1144-1145: ilp_NL.fill(0), ilp_NN.fill(0)
FillSecondary(s, mem) ==
  [mem EXCEPT !.ilp_NN = [n \in Atoms(s) |-> 0],
              !.ilp_NL = [idx \in 0..(IlpListSize(s) - 1) |-> 0]]

ComputeWith(s, pos_, NN_, NL_, mem) ==
  RunReduce(s, pos_, NN_, NL_,
    RunForce(s, pos_, NN_, NL_,
      RunInit(s, RunNeighbor(s, pos_, NN_, NL_, FillSecondary(s, mem), s.N1), s.N1),
      s.N1),
    s.N1)

compute(s, pos_, mem) ==
  ComputeWith(s, pos_, find_neighbor_NN(s, pos_), find_neighbor_NL(s, pos_), mem)

\* the memory the current call found on entry
EntryMem ==
  [ilp_NN |-> [n \in Atoms(S) |-> 0], ilp_NL |-> [idx \in 0..(IlpListSize(S) - 1) |-> 0],
   f12 |-> entry.f12, f12_ilp_neigh |-> entry.f12_ilp_neigh, g_f |-> entry.g_f,
   g_virial |-> entry.g_virial, g_potential |-> entry.g_potential, oob |-> {}]

\* the same with the three output arrays holding zeros
EntryMemZeroOutputs ==
  [EntryMem EXCEPT !.g_f = [n \in Atoms(S) |-> EmptyForm],
                   !.g_virial = [n \in Atoms(S) |-> EmptyForm],
                   !.g_potential = [n \in Atoms(S) |-> EmptyForm]]

\* what the current call has added to the output arrays of atom n
AddedForce(n) == FSub(g_f[n], entry.g_f[n])
AddedVirial(n) == FSub(g_virial[n], entry.g_virial[n])
AddedPotential(n) == FSub(g_potential[n], entry.g_potential[n])

-----------------------------------------------------------------------------
(* double: IEEE 754 binary64, for the functions of ilp.cu called on their own. *)
(* A natural number is a sequence of limbs, least significant first, in base   *)
(* LimbBase; a number is  s * m * 2^e  with s in {-1, 0, 1} and m a natural.   *)
(* A double is such a number with m of exactly MantissaBits bits, or zero.     *)
(* Exponent overflow and subnormals do not occur for the values used here.     *)

LimbBits == 14
LimbBase == 16384
MantissaBits == 53

RECURSIVE Pow2(_)
Pow2(k) == IF k = 0 THEN 1 ELSE 2 * Pow2(k - 1)

Limb(a, i) == IF i \in 1..Len(a) THEN a[i] ELSE 0
MaxOf(x, y) == IF x >= y THEN x ELSE y

RECURSIVE LTrim(_)
LTrim(a) ==
  IF a # <<>> /\ a[Len(a)] = 0 THEN LTrim(SubSeq(a, 1, Len(a) - 1)) ELSE a

\* limbs of a sequence of non-negative integers plus a carry
RECURSIVE Carry(_, _)
Carry(raw, c) ==
  IF raw = <<>>
  THEN IF c = 0 THEN <<>> ELSE <<c % LimbBase>> \o Carry(<<>>, c \div LimbBase)
  ELSE <<(raw[1] + c) % LimbBase>> \o Carry(Tail(raw), (raw[1] + c) \div LimbBase)

LAdd(a, b) ==
  LTrim(Carry([i \in 1..MaxOf(Len(a), Len(b)) |-> Limb(a, i) + Limb(b, i)], 0))

\* a - b for a >= b
RECURSIVE Borrow(_, _, _, _)
Borrow(a, b, i, br) ==
  IF i > Len(a) THEN <<>>
  ELSE IF Limb(a, i) - Limb(b, i) - br < 0
       THEN <<Limb(a, i) - Limb(b, i) - br + LimbBase>> \o Borrow(a, b, i + 1, 1)
       ELSE <<Limb(a, i) - Limb(b, i) - br>> \o Borrow(a, b, i + 1, 0)

LSub(a, b) == LTrim(Borrow(a, b, 1, 0))

RECURSIVE ConvSum(_, _, _, _)
ConvSum(a, b, k, i) ==
  IF i > Len(a) THEN 0
  ELSE Limb(a, i) * Limb(b, k + 1 - i) + ConvSum(a, b, k, i + 1)

\* a * b for a, b of at most four limbs
LMul(a, b) ==
  IF a = <<>> \/ b = <<>> THEN <<>>
  ELSE LTrim(Carry([k \in 1..(Len(a) + Len(b) - 1) |-> ConvSum(a, b, k, 1)], 0))

\* -1, 0, 1 as a < b, a = b, a > b, for trimmed a and b
RECURSIVE LCmpFrom(_, _, _)
LCmpFrom(a, b, i) ==
  IF i = 0 THEN 0
  ELSE IF a[i] < b[i] THEN -1
  ELSE IF a[i] > b[i] THEN 1
  ELSE LCmpFrom(a, b, i - 1)

LCmp(a, b) ==
  IF Len(a) < Len(b) THEN -1
  ELSE IF Len(a) > Len(b) THEN 1
  ELSE LCmpFrom(a, b, Len(a))

RECURSIVE BitLen(_)
BitLen(x) == IF x = 0 THEN 0 ELSE 1 + BitLen(x \div 2)

LBits(a) == IF a = <<>> THEN 0 ELSE LimbBits * (Len(a) - 1) + BitLen(a[Len(a)])

\* a * 2^sh
LShl(a, sh) ==
  IF a = <<>> THEN <<>>
  ELSE LTrim([i \in 1..(sh \div LimbBits) |-> 0]
             \o Carry([i \in 1..Len(a) |-> a[i] * Pow2(sh % LimbBits)], 0))

\* floor(a / 2^sh)
LShr(a, sh) ==
  IF Len(a) <= sh \div LimbBits THEN <<>>
  ELSE LTrim([i \in 1..(Len(a) - (sh \div LimbBits)) |->
                (Limb(a, i + (sh \div LimbBits)) \div Pow2(sh % LimbBits))
                + (Limb(a, i + (sh \div LimbBits) + 1) % Pow2(sh % LimbBits))
                  * Pow2(LimbBits - (sh % LimbBits))])

\* bit k of a, k counted from 0
LBit(a, k) == (Limb(a, (k \div LimbBits) + 1) \div Pow2(k % LimbBits)) % 2

\* a has a nonzero bit below bit k
LowBits(a, k) == LShl(LShr(a, k), k) # a

XZero == [s |-> 0, m |-> <<>>, e |-> 0]
XNeg(x) == [x EXCEPT !.s = -x.s]

XMul(x, y) ==
  IF x.s = 0 \/ y.s = 0 THEN XZero
  ELSE [s |-> x.s * y.s, m |-> LMul(x.m, y.m), e |-> x.e + y.e]

\* the sum of two numbers with mantissas a, b brought to one exponent e
XAddAligned(sa, a, sb, b, e) ==
  IF sa = sb THEN [s |-> sa, m |-> LAdd(a, b), e |-> e]
  ELSE IF LCmp(a, b) = 0 THEN XZero
  ELSE IF LCmp(a, b) > 0 THEN [s |-> sa, m |-> LSub(a, b), e |-> e]
  ELSE [s |-> sb, m |-> LSub(b, a), e |-> e]

XAdd(x, y) ==
  IF x.s = 0 THEN y
  ELSE IF y.s = 0 THEN x
  ELSE IF x.e <= y.e
       THEN XAddAligned(x.s, x.m, y.s, LShl(y.m, y.e - x.e), x.e)
       ELSE XAddAligned(x.s, LShl(x.m, x.e - y.e), y.s, y.m, y.e)

\* the sign of x - y
XCmp(x, y) == XAdd(x, XNeg(y)).s

\* q, the leading MantissaBits bits of x, after the increment if any
Renormalize(s, q, e) ==
  IF LBits(q) > MantissaBits
  THEN [s |-> s, m |-> LShr(q, 1), e |-> e + 1]
  ELSE [s |-> s, m |-> q, e |-> e]

\* round to nearest, ties to even: drop the sh low bits of x.m
RoundDrop(x, sh, q) ==
  IF LBit(x.m, sh - 1) = 1 /\ (LowBits(x.m, sh - 1) \/ LBit(q, 0) = 1)
  THEN Renormalize(x.s, LAdd(q, <<1>>), x.e + sh)
  ELSE [s |-> x.s, m |-> q, e |-> x.e + sh]

\* the double nearest to x
Round(x) ==
  IF x.s = 0 THEN XZero
  ELSE IF LBits(x.m) <= MantissaBits
       THEN [s |-> x.s, m |-> LShl(x.m, MantissaBits - LBits(x.m)),
             e |-> x.e - (MantissaBits - LBits(x.m))]
       ELSE RoundDrop(x, LBits(x.m) - MantissaBits, LShr(x.m, LBits(x.m) - MantissaBits))

\* the double of an integer n, |n| < LimbBase
FromInt(n) ==
  IF n = 0 THEN XZero
  ELSE Round([s |-> IF n < 0 THEN -1 ELSE 1, m |-> <<IF n < 0 THEN -n ELSE n>>, e |-> 0])

\* a * b and a + b in double arithmetic
DMul(a, b) == Round(XMul(a, b))
DAdd(a, b) == Round(XAdd(a, b))

\* a * b + c as the build evaluates it: contracted into one fused
\* multiply-add (one rounding) or not (two roundings)
MulAdd(fma, a, b, c) ==
  IF fma THEN Round(XAdd(XMul(a, b), c)) ELSE DAdd(DMul(a, b), c)

\* floor(a / n) and a % n for a natural a and an integer 0 < n < 2^17
RECURSIVE ShortDivRem(_, _, _, _)
ShortDivRem(a, n, i, rem) ==
  IF i = 0 THEN rem ELSE ShortDivRem(a, n, i - 1, (rem * LimbBase + a[i]) % n)

RECURSIVE ShortDivQuot(_, _, _, _)
ShortDivQuot(a, n, i, rem) ==
  IF i = 0 THEN <<>>
  ELSE ShortDivQuot(a, n, i - 1, (rem * LimbBase + a[i]) % n)
       \o <<(rem * LimbBase + a[i]) \div n>>

\* the exact quotient 2^k / n to k fractional bits, with one more bit that is
\* set when the division left a remainder
QuotientWithSticky(num, n, k) ==
  [s |-> 1,
   m |-> LAdd(LShl(LTrim(ShortDivQuot(num, n, Len(num), 0)), 1),
              IF ShortDivRem(num, n, Len(num), 0) = 0 THEN <<>> ELSE <<1>>),
   e |-> -(k + 1)]

\* 1.0 / n in double arithmetic, for an integer n > 0
Reciprocal(n) ==
  Round(QuotientWithSticky(LShl(<<1>>, MantissaBits + 3 + BitLen(n)), n,
                           MantissaBits + 3 + BitLen(n)))

\* Tap_coeff, lines 96-98; Tap_coeff[i] of the code is TapCoeff[i + 1]
TapCoeff == <<1, 0, 0, 0, -35, 84, -70, 20>>

\* calc_Tap, lines 117-120: the loop from index i down to 0
RECURSIVE TapLoop(_, _, _, _)
TapLoop(fma, r, i, Tap) ==
  IF i < 0 THEN Tap
  ELSE TapLoop(fma, r, i - 1, MulAdd(fma, Tap, r, FromInt(TapCoeff[i + 1])))

\* calc_Tap after r = r_ij * Rcutinv
TapOfReduced(r, fma) ==
  IF XCmp(r, FromInt(1)) >= 0
  THEN [zero |-> TRUE, value |-> XZero]
  ELSE [zero |-> FALSE, value |-> TapLoop(fma, r, 6, FromInt(TapCoeff[8]))]

calc_Tap(r_ij, Rcutinv, fma) == TapOfReduced(DMul(r_ij, Rcutinv), fma)

\* calc_dTap, lines 136-139: the loop from index i down to 1
RECURSIVE DTapLoop(_, _, _, _)
DTapLoop(fma, r, i, dTap) ==
  IF i <= 0 THEN dTap
  ELSE DTapLoop(fma, r, i - 1,
                MulAdd(fma, dTap, r, DMul(FromInt(i), FromInt(TapCoeff[i + 1]))))

\* calc_dTap after r = r_ij * Rcutinv
DTapOfReduced(r, Rcut, Rcutinv, fma) ==
  IF XCmp(r, Rcut) >= 0
  THEN [zero |-> TRUE, value |-> XZero]
  ELSE [zero |-> FALSE,
        value |-> DMul(DTapLoop(fma, r, 6, DMul(FromInt(7), FromInt(TapCoeff[8]))),
                       Rcutinv)]

calc_dTap(r_ij, Rcut, Rcutinv, fma) ==
  DTapOfReduced(DMul(r_ij, Rcutinv), Rcut, Rcutinv, fma)

-----------------------------------------------------------------------------
(* ILP::ILP, lines 28-100, as a function of num_types and of what each fscanf *)
(* returns: symbols[n + 1] for the symbol of type n, counts[<<n, m>>] for the  *)
(* record of type pair (n, m)                                                 *)

\* ilp.cuh: the largest number of types; kept small here
MAX_TYPE_ILP == 2

\* error.cuh: the process ends with a message when count differs from n
PRINT_SCANF_ERROR(count, n) == count # n

\* the constructor ended the process: entries stored so far, nothing allocated
Fatal(why, stored, at) ==
  [status |-> "fatal", why |-> why, stored |-> stored, allocated |-> FALSE, at |-> at]

\* variant: the entry is stored before the count is tested
RECURSIVE ReadParametersStoringFirst(_, _, _, _)
ReadParametersStoringFirst(num_types, counts, idx, stored) ==
  IF idx >= num_types * num_types
  THEN [status |-> "constructed", why |-> "", stored |-> stored,
        allocated |-> TRUE, at |-> <<>>]
  ELSE IF PRINT_SCANF_ERROR(counts[<<idx \div num_types, idx % num_types>>], 12)
       THEN Fatal("record", stored \cup {<<idx \div num_types, idx % num_types>>},
                  <<idx \div num_types, idx % num_types>>)
       ELSE ReadParametersStoringFirst(num_types, counts, idx + 1,
                 stored \cup {<<idx \div num_types, idx % num_types>>})

\* lines 46-75 from record idx = n * num_types + m on, then lines 78-99
RECURSIVE ReadParameters(_, _, _, _)
ReadParameters(num_types, counts, idx, stored) ==
  IF idx >= num_types * num_types
  THEN [status |-> "constructed", why |-> "", stored |-> stored,
        allocated |-> TRUE, at |-> <<>>]
  ELSE IF PRINT_SCANF_ERROR(counts[<<idx \div num_types, idx % num_types>>], 12)
       THEN Fatal("record", stored, <<idx \div num_types, idx % num_types>>)
       ELSE ReadParameters(num_types, counts, idx + 1,
                           stored \cup {<<idx \div num_types, idx % num_types>>})

ILP_constructor(num_types, symbols, counts) ==
  IF ~(num_types >= 1 /\ num_types <= MAX_TYPE_ILP)
  THEN Fatal("num_types", {}, <<>>)
  ELSE IF \E n \in 0..(num_types - 1) : PRINT_SCANF_ERROR(symbols[n + 1], 1)
       THEN Fatal("symbol", {}, <<>>)
       ELSE ReadParameters(num_types, counts, 0, {})

-----------------------------------------------------------------------------
(* functions called on their own: one call, its argument and its result *)

\* cutoffs, and for each the distances 0 .. Rcut + 1
Rcuts == {1, 2, 3, 5, 8, 49}

TapArgs ==
  {[Rcut |-> n, r_ij |-> k, fma |-> b] :
     n \in Rcuts, k \in 0..(1 + CHOOSE x \in Rcuts : \A y \in Rcuts : y <= x), b \in BOOLEAN}

\* bond rows: zero, collinear, planar and out-of-plane vectors
BondVectors ==
  { <<0, 0, 0>>, <<1, 0, 0>>, <<2, 0, 0>>, <<-1, 0, 0>>, <<0, 1, 0>>, <<1, 1, 1>> }

NormalArgs ==
  {[vet |-> <<a, b, c>>, cont |-> n] :
     a \in BondVectors, b \in BondVectors, c \in BondVectors, n \in 0..(MAX_ILP_NEIGHBOR + 1)}

\* what fscanf may return for a record of twelve fields: all, some, end of file
FieldCounts == {12, 11, -1}
TypePairs == (0..(MAX_TYPE_ILP - 1)) \X (0..(MAX_TYPE_ILP - 1))

ConstructorArgs ==
  {[num_types |-> nt, symbols |-> sy, counts |-> co] :
     nt \in 0..(MAX_TYPE_ILP + 1),
     sy \in [1..MAX_TYPE_ILP -> {1, -1}],
     co \in [TypePairs -> FieldCounts]}

\* index-ordered neighbor lists of an atom and the position of the partner
MaxListLen == 4
SearchKeys == 0..MaxListLen
SearchArgs ==
  {[list |-> SortedSeq(keys), k |-> k] :
     keys \in (SUBSET SearchKeys) \ {{}, SearchKeys}, k \in 0..(MaxListLen - 1)}

\* three atoms of types 0, 1, 0 for ILP_neighbor called on its own: their
\* group labels and their positions, coincident ones included
NeighborSystem(label) ==
  [N |-> 3, N1 |-> 0, N2 |-> 3, box |-> <<7, 7, 7>>,
   type |-> <<0, 1, 0>>, label |-> label, para |-> AsymmetricCutoffPara,
   frames |-> {}]

NeighborSites == {<<0, 0, 0>>, <<1, 0, 0>>, <<1, 1, 0>>, <<6, 0, 0>>}

NeighborArgs ==
  {[label |-> lb, pos |-> <<p0, p1, p2>>, n1 |-> n1] :
     lb \in {<<0, 0, 0>>, <<0, 0, 1>>},
     p0 \in NeighborSites, p1 \in NeighborSites, p2 \in NeighborSites,
     n1 \in 0..2}

\* the secondary lists as ILP::compute fills them before the kernel, line 1144
FreshLists(s) ==
  [ilp_NN |-> [n \in Atoms(s) |-> 0],
   ilp_NL |-> [idx \in 0..(IlpListSize(s) - 1) |-> 0],
   oob |-> {}]

\* the entries 0 .. ilp_neighbor_number[n1] - 1 of atom n1, in order
StoredList(s, mem, n1) ==
  [k \in 1..mem.ilp_NN[n1] |-> mem.ilp_NL[IlpSlot(s, n1, k - 1)]]

CallArgs(unit) ==
  IF unit \in {"calc_Tap", "calc_dTap"}
  THEN {a \in TapArgs : a.r_ij <= a.Rcut + 1}
  ELSE IF unit = "calc_normal" THEN NormalArgs
  ELSE IF unit = "ILP" THEN ConstructorArgs
  ELSE IF unit = "BinarySearch" THEN {a \in SearchArgs : a.k < Len(a.list)}
  ELSE IF unit = "ILP_neighbor" THEN NeighborArgs
  ELSE {}

Units == {"calc_Tap", "calc_dTap", "calc_normal", "ILP", "BinarySearch", "ILP_neighbor"}

\* the program is idle while a function is called on its own
CallInit ==
  /\ InitProgram
  /\ sys = 1
  /\ f12[0] = EmptyForm
  /\ g_f[0] = EmptyForm
  /\ heat = NoHeat
  /\ \E unit \in Units : \E arg \in CallArgs(unit) :
       call = [unit |-> unit, arg |-> arg, res |-> <<>>, returned |-> FALSE]

Return(unit, res) ==
  /\ call.unit = unit
  /\ ~call.returned
  /\ call' = [call EXCEPT !.res = res, !.returned = TRUE]
  /\ UNCHANGED <<sys, pos, NN, NL, ilp_NN, ilp_NL, f12, f12_ilp_neigh, g_f,
                 g_virial, g_potential, oob, pc, fin, calls, entry, heat>>

\* gpu_find_force, lines 696-699: Rcutinv = 1.0 / Rcut, then the two calls
Call_calc_Tap ==
  Return("calc_Tap",
         calc_Tap(FromInt(call.arg.r_ij), Reciprocal(call.arg.Rcut), call.arg.fma))

Call_calc_dTap ==
  Return("calc_dTap",
         calc_dTap(FromInt(call.arg.r_ij), FromInt(call.arg.Rcut),
                   Reciprocal(call.arg.Rcut), call.arg.fma))

\* gpu_find_force, line 673
Call_calc_normal == Return("calc_normal", calc_normal(call.arg.vet, call.arg.cont))

Call_ILP ==
  Return("ILP", ILP_constructor(call.arg.num_types, call.arg.symbols, call.arg.counts))

\* reduce_force_many_body, lines 988-1003, for an atom n2 = 0 whose list is
\* call.arg.list and for the partner n1 stored at position k
Call_BinarySearch ==
  Return("BinarySearch",
         BinarySearch([N |-> 1],
                      [i \in 0..(Len(call.arg.list) - 1) |-> call.arg.list[i + 1]],
                      call.arg.list[call.arg.k + 1], 0,
                      0, Len(call.arg.list), 0))

\* ILP::compute, lines 1120-1155: find_neighbor, fill(0), ILP_neighbor; the
\* result is the list the kernel stored for atom n1
Call_ILP_neighbor ==
  Return("ILP_neighbor",
         StoredList(NeighborSystem(call.arg.label),
                    ILP_neighbor(NeighborSystem(call.arg.label), call.arg.pos,
                                 find_neighbor_NN(NeighborSystem(call.arg.label), call.arg.pos),
                                 find_neighbor_NL(NeighborSystem(call.arg.label), call.arg.pos),
                                 FreshLists(NeighborSystem(call.arg.label)),
                                 call.arg.n1),
                    call.arg.n1))

CallNext ==
  \/ Call_calc_Tap
  \/ Call_calc_dTap
  \/ Call_calc_normal
  \/ Call_ILP
  \/ Call_BinarySearch
  \/ Call_ILP_neighbor

SpecCalls == CallInit /\ [][CallNext]_vars

-----------------------------------------------------------------------------
(* heat.cu: the sampler of group temperatures, over one run.  heat.para is    *)
(* the run: its steps are first_step .. first_step + number_of_steps - 1, one *)
(* call of sample_block_temperature per step                                  *)

MaxSteps == 4
MaxInterval == 3
MaxGroups == 2

\* find_group_temp's result for group g at a step, and energy_transferred[k]
Temperature(step, g) == <<"T", step, g>>
EnergyTransferred(step, k) == <<"E", step, k>>

\* what the memory of MY_MALLOC may hold before it is written
Garbage == {<<"U", 0, 0>>, <<"U", 1, 0>>}

HeatRuns ==
  [number_of_steps : 1..MaxSteps, sample_interval : 1..MaxInterval,
   number_of_groups : 1..MaxGroups, first_step : {0, 1}, sample : BOOLEAN]

\* lines 142-150: the Ng + 2 values written for a step
SampleOf(step, Ng) ==
  [k \in 1..(Ng + 2) |->
     IF k <= Ng THEN Temperature(step, k - 1)
     ELSE EnergyTransferred(step, k - Ng - 1)]

HeatInit ==
  /\ InitProgram
  /\ sys = 1
  /\ f12[0] = EmptyForm
  /\ g_f[0] = EmptyForm
  /\ call = NoCall
  /\ \E para \in HeatRuns : \E garbage \in Garbage :
       heat = [pc |-> "preprocess", para |-> para, garbage |-> garbage,
               step |-> para.first_step, group_temp |-> <<>>,
               sampled |-> <<>>, outside |-> {}, file |-> <<>>,
               heap |-> "none"]

HeatStep(next) ==
  /\ heat' = next
  /\ UNCHANGED <<sys, pos, NN, NL, ilp_NN, ilp_NL, f12, f12_ilp_neigh, g_f,
                 g_virial, g_potential, oob, pc, fin, calls, entry, call>>

\* lines 43-52
preprocess_heat ==
  /\ heat.pc = "preprocess"
  /\ HeatStep([heat EXCEPT
       !.pc = "run",
       !.heap = IF heat.para.sample THEN "allocated" ELSE heat.heap,
       !.group_temp =
          IF heat.para.sample
          THEN [i \in 1..((heat.para.number_of_groups + 2)
                          * (heat.para.number_of_steps \div heat.para.sample_interval))
                  |-> heat.garbage]
          ELSE <<>>])

\* lines 121-150: group_temp after the values of a step are written from
\* offset on; an index beyond the allocation leaves the buffer as it is
WriteSample(group_temp, offset, values) ==
  [i \in 1..Len(group_temp) |->
     IF i - 1 >= offset /\ i - 1 < offset + Len(values)
     THEN values[i - offset]
     ELSE group_temp[i]]

\* the indices of such a write that lie beyond the allocation
WrittenOutside(group_temp, offset, values) ==
  {i \in offset..(offset + Len(values) - 1) : i >= Len(group_temp)}

\* lines 113-153, called with the current step of the run
sample_block_temperature ==
  /\ heat.pc = "run"
  /\ heat.step < heat.para.first_step + heat.para.number_of_steps
  /\ IF heat.para.sample /\ heat.step % heat.para.sample_interval = 0
     THEN HeatStep([heat EXCEPT
            !.step = heat.step + 1,
            !.sampled = Append(heat.sampled, heat.step),
            !.group_temp =
               WriteSample(heat.group_temp,
                           (heat.step \div heat.para.sample_interval)
                             * (heat.para.number_of_groups + 2),
                           SampleOf(heat.step, heat.para.number_of_groups)),
            !.outside = heat.outside \cup
               WrittenOutside(heat.group_temp,
                              (heat.step \div heat.para.sample_interval)
                                * (heat.para.number_of_groups + 2),
                              SampleOf(heat.step, heat.para.number_of_groups))])
     ELSE HeatStep([heat EXCEPT !.step = heat.step + 1])

\* lines 142-150: a write beyond the allocation may end the process
HeapFault ==
  /\ heat.pc = "run"
  /\ heat.outside # {}
  /\ HeatStep([heat EXCEPT !.pc = "crashed"])

\* lines 160-184, called after the last step
postprocess_heat ==
  /\ heat.pc = "run"
  /\ heat.step = heat.para.first_step + heat.para.number_of_steps
  /\ HeatStep([heat EXCEPT
       !.pc = "done",
       !.heap = IF heat.para.sample THEN "freed" ELSE heat.heap,
       !.group_temp = <<>>,
       !.file =
          IF heat.para.sample
          THEN [nt \in 1..(heat.para.number_of_steps \div heat.para.sample_interval) |->
                  [k \in 1..(heat.para.number_of_groups + 2) |->
                     heat.group_temp[(nt - 1) * (heat.para.number_of_groups + 2) + k]]]
          ELSE <<>>])

HeatNext ==
  \/ preprocess_heat
  \/ sample_block_temperature
  \/ HeapFault
  \/ postprocess_heat

SpecHeat == HeatInit /\ [][HeatNext]_vars

-----------------------------------------------------------------------------
(* the claims *)

\* atoms i, j in different groups, each within the general cutoff of the other
InteractingPair(i, j) ==
  /\ i \in Owned(S) /\ j \in Owned(S) /\ i # j
  /\ LabelOf(S, i) # LabelOf(S, j)
  /\ ~SkipsPair(S, pos, i, j)
  /\ ~SkipsPair(S, pos, j, i)

\* the pairwise force the call added to atom i on account of j: the van der
\* Waals force and fkc of the force kernel, minus the slot the reduction pass
\* picked up for j
PairTermsOfState(i, j) ==
  PairTerms(PairId(S, i, j), Bond(S.box, pos, i, j),
            calc_normal(BondRows(S, pos, Mem, i), ilp_NN[i]), BondRows(S, pos, Mem, i), ilp_NN[i])

PairwiseForceOn(i, j) ==
  FSub(FAdd(PairTermsOfState(i, j).vdw, PairTermsOfState(i, j).fkc),
       f12[j + S.N * PairOffset(S, NN, NL, i, j)])

\* C1: after both passes, for every pair of atoms in different groups within
\* the general cutoff of each other, the pairwise force added to i on account
\* of j and the one added to j on account of i sum to zero.
C1_NewtonThirdLaw ==
  pc = "done" =>
    \A i, j \in Atoms(S) :
      InteractingPair(i, j) =>
        FAdd(PairwiseForceOn(i, j), PairwiseForceOn(j, i)) = EmptyForm

\* C2: ILP_neighbor never writes or reads a secondary-list entry at a slot
\* outside the num_atoms * MAX_ILP_NEIGHBOR array.
C2_SecondaryListInBounds ==
  \A a \in oob : ~(a[1] = "ilp_NL" /\ a[4] >= MAX_ILP_NEIGHBOR)

\* C3: a general-neighbor pair the force kernel skips (same group, or at
\* distance >= rcut_global) contributes nothing: the slot the reduction pass
\* reads for it holds nothing.
C3_SkippedPairAddsNothing ==
  pc = "done" =>
    \A n1 \in Owned(S) : \A i1 \in 0..(NN[n1] - 1) :
      SkipsPair(S, pos, n1, NL[n1 + S.N * i1]) =>
        f12[NL[n1 + S.N * i1] + S.N * PairOffset(S, NN, NL, n1, NL[n1 + S.N * i1])]
          = EmptyForm

-----------------------------------------------------------------------------

\* the call's additions to the outputs of the owned atoms are those of memory m
AddedMatches(m) ==
  \A n \in Owned(S) :
    /\ AddedForce(n) = m.g_f[n]
    /\ AddedVirial(n) = m.g_virial[n]
    /\ AddedPotential(n) = m.g_potential[n]

\* C4: compute only adds to the output arrays. Elements of atoms outside
\* [N1, N2) are never changed, and after the call each element of an owned atom
\* is its prior value plus a contribution that is the one the call makes when
\* the output arrays hold zeros on entry.
C4_OnlyAddsToOutputs ==
  /\ \A n \in Atoms(S) \ Owned(S) :
       /\ g_f[n] = entry.g_f[n]
       /\ g_virial[n] = entry.g_virial[n]
       /\ g_potential[n] = entry.g_potential[n]
  /\ pc = "done" => AddedMatches(compute(S, pos, EntryMemZeroOutputs))

\* a call has finished on a system with an atom outside [N1, N2), on output
\* arrays that held other values, and has added to them
C4_Witness ==
  /\ pc = "done"
  /\ Atoms(S) \ Owned(S) # {}
  /\ \A n \in Atoms(S) : entry.g_f[n] # EmptyForm /\ entry.g_potential[n] # EmptyForm
  /\ \E n \in Owned(S) : AddedForce(n) # EmptyForm /\ AddedPotential(n) # EmptyForm

\* C5: the four kernels run in the order neighbor, init, force, reduce, and no
\* worker of a kernel has run before every worker of the kernel before it has
\* returned, whatever the interleaving of the workers.
C5_StagesInOrder ==
  /\ (pc = "init" \/ fin["init"] # {}) => fin["neighbor"] = Owned(S)
  /\ (pc = "force" \/ fin["force"] # {}) =>
       fin["neighbor"] = Owned(S) /\ fin["init"] = Owned(S)
  /\ (pc = "reduce" \/ fin["reduce"] # {}) =>
       fin["neighbor"] = Owned(S) /\ fin["init"] = Owned(S) /\ fin["force"] = Owned(S)
  /\ pc = "done" => \A st \in Stages : fin[st] = Owned(S)

\* the reduction pass is under way in a system of five atoms: the worker of
\* atom 3 has returned before those of atoms 0 and 4
C5_Witness ==
  /\ pc = "reduce"
  /\ S.N = 5
  /\ 3 \in fin["reduce"]
  /\ 0 \notin fin["reduce"]
  /\ 4 \notin fin["reduce"]

\* the owned atoms whose reduction worker reads the pairwise slot k of atom n2
SlotReaders(n2, k) ==
  {n1 \in Owned(S) :
     \E i1 \in 0..(NN[n1] - 1) :
       /\ NL[n1 + S.N * i1] = n2
       /\ PairOffset(S, NN, NL, n1, n2) = k}

\* C6: each pairwise-buffer slot (atom n2, position k of its general list) is
\* read in the reduction pass by exactly one worker, the one of the partner
\* stored at position k of the list of n2.
C6_OneReaderPerSlot ==
  pc \in {"reduce", "done"} =>
    \A n2 \in Owned(S) : \A k \in 0..(NN[n2] - 1) :
      SlotReaders(n2, k) = {NL[n2 + S.N * k]}

\* the memory of the current call with buffers and output arrays holding zeros
ZeroMem ==
  [EntryMemZeroOutputs EXCEPT
     !.f12 = [idx \in DOMAIN entry.f12 |-> EmptyForm],
     !.f12_ilp_neigh = [idx \in DOMAIN entry.f12_ilp_neigh |-> EmptyForm]]

\* C7: what a call adds to the outputs is a function of positions, types,
\* groups and parameters alone: it is what the call adds when the buffers hold
\* zeros, whatever they held on entry.
C7_HistoryIndependent ==
  pc = "done" => AddedMatches(compute(S, pos, ZeroMem))

\* the potential energy one atom of a pair takes from it: the van der Waals
\* term at weight 1/2 and the repulsive term for the normal (0, 0, 1)
DefaultNormalEnergy(pid, x12) ==
  FAdd(FTerm(Key("p2_vdW", pid, Dot(x12, x12), 0, 1, 0), <<1>>),
       FTerm(Key("Tap_Vilp", pid, Dot(x12, x12), x12[3] * x12[3], 1, 0), <<2>>))

\* C8 as stated: in a system of exactly two atoms in different groups the
\* potential energy the call adds consists of van der Waals terms only.
C8_VdwOnly ==
  (pc = "done" /\ S.N = 2) =>
    \A n \in Owned(S) : \A k \in DOMAIN AddedPotential(n) : k[1] = "p2_vdW"

\* C8: in a system of exactly two atoms in different groups both secondary
\* counts are 0, and each atom that is within its general cutoff of the other
\* adds half the tapered van der Waals term plus the tapered repulsive term
\* evaluated with the default normal (0, 0, 1); an atom beyond it adds nothing.
C8_VdwPlusDefaultNormalRepulsion ==
  (pc = "done" /\ S.N = 2) =>
    \A n \in Owned(S) :
      /\ ilp_NN[n] = 0
      /\ AddedPotential(n) =
           IF NN[n] = 0 \/ SkipsPair(S, pos, n, 1 - n) THEN EmptyForm
           ELSE DefaultNormalEnergy(PairId(S, n, 1 - n), Bond(S.box, pos, n, 1 - n))

\* a call on two atoms of different groups within the cutoff, whose bond is
\* not along z, has finished and both atoms have received energy
C8_Witness ==
  /\ pc = "done"
  /\ S.N = 2
  /\ Bond(S.box, pos, 0, 1)[1] # 0
  /\ AddedPotential(0) # EmptyForm
  /\ AddedPotential(1) # EmptyForm

\* relabellings of the groups that keep the same-group relation
LabelMaps ==
  { [l \in {0, 1} |-> 1 - l], [l \in {0, 1} |-> l + 3], [l \in {0, 1} |-> 5 - 2 * l] }

Relabel(s, f) == [s EXCEPT !.label = [i \in DOMAIN s.label |-> f[s.label[i]]]]

\* memory m holds the secondary list and the outputs of the current state
SameResult(m) ==
  /\ m.ilp_NN = ilp_NN
  /\ \A n \in Owned(S) : \A k \in 0..(ilp_NN[n] - 1) :
       m.ilp_NL[n + S.N * k] = ilp_NL[n + S.N * k]
  /\ m.g_f = g_f
  /\ m.g_virial = g_virial
  /\ m.g_potential = g_potential

\* C9: the result depends on the group labels only through the same-group
\* relation: with the labels renamed, the call from the same memory builds the
\* same secondary list, skips the same pairs and leaves the same outputs.
C9_LabelInvariant ==
  pc = "done" =>
    \A f \in LabelMaps :
      /\ SameResult(compute(Relabel(S, f), pos, EntryMem))
      /\ \A n1, n2 \in Owned(S) :
           SkipsPair(Relabel(S, f), pos, n1, n2) = SkipsPair(S, pos, n1, n2)

\* a call has finished on a layer with three-bond atom 0 and an atom of the
\* other group above it; atom 0 kept neighbors and received a force
C9_Witness ==
  /\ pc = "done"
  /\ S.N = 5
  /\ ilp_NN[0] = 3
  /\ LabelOf(S, 4) # LabelOf(S, 0)
  /\ AddedForce(0) # EmptyForm
  /\ AddedPotential(4) # EmptyForm

\* rigid translations of all atoms, wrapped back into the box or not
Translations == { <<1, 0, 0>>, <<3, 5, 6>>, <<0, 0, 5>> }

Translate(s, p, t, wrap) ==
  [i \in DOMAIN p |->
     [c \in 1..3 |-> IF wrap THEN (p[i][c] + t[c]) % s.box[c] ELSE p[i][c] + t[c]]]

\* the potential energy memory m holds, summed over the owned atoms
RECURSIVE TotalPotential(_, _, _)
TotalPotential(s, m, n) ==
  IF n >= s.N2 THEN EmptyForm
  ELSE FAdd(m.g_potential[n], TotalPotential(s, m, n + 1))

RECURSIVE TotalAdded(_)
TotalAdded(n) ==
  IF n >= S.N2 THEN EmptyForm ELSE FAdd(AddedPotential(n), TotalAdded(n + 1))

\* memory m, built from positions p, holds the secondary list of the current
\* state, and the bond rows and pair vectors from p are those of the state
SameBonds(m, p) ==
  /\ m.ilp_NN = ilp_NN
  /\ \A n \in Owned(S) :
       /\ BondRows(S, p, m, n) = BondRows(S, pos, Mem, n)
       /\ \A n2 \in Owned(S) : Bond(S.box, p, n, n2) = Bond(S.box, pos, n, n2)

\* C10: the total potential energy a call adds does not change when all atoms
\* are translated by the same vector, wrapped into the periodic box or not;
\* the secondary lists, the bond rows given to calc_normal and the pair vectors
\* do not change either.
C10_TranslationInvariant ==
  pc = "done" =>
    \A t \in Translations : \A wrap \in BOOLEAN :
      /\ TotalPotential(S, compute(S, Translate(S, pos, t, wrap), EntryMemZeroOutputs), S.N1)
           = TotalAdded(S.N1)
      /\ SameBonds(compute(S, Translate(S, pos, t, wrap), EntryMemZeroOutputs),
                   Translate(S, pos, t, wrap))

\* a call has finished on a pair that interacts across the periodic boundary
\* (positions x = 6 and x = 0 in a box of length 7) and has added energy
C10_Witness ==
  /\ pc = "done"
  /\ S.N = 2
  /\ pos[1][1] - pos[2][1] = 6
  /\ TotalAdded(S.N1) # EmptyForm

-----------------------------------------------------------------------------

\* calc_Tap has returned from a call with the arguments of call.arg
TapReturned == call.unit = "calc_Tap" /\ call.returned

\* what calc_Tap returns at the next grid distance
TapAtNext ==
  calc_Tap(FromInt(call.arg.r_ij + 1), Reciprocal(call.arg.Rcut), call.arg.fma).value

\* C11: calc_Tap returns exactly 1 for r = 0 and exactly 0 for every r >= Rcut,
\* and on the grid of distances 0, 1, .., Rcut its value does not increase.
C11_TaperEndpointsAndMonotone ==
  TapReturned =>
    /\ call.arg.r_ij = 0 => call.res.value = FromInt(1)
    /\ call.arg.r_ij >= call.arg.Rcut => call.res.value = XZero
    /\ call.arg.r_ij < call.arg.Rcut => XCmp(call.res.value, TapAtNext) >= 0

\* calc_normal has returned from a call with the arguments of call.arg
NormalReturned == call.unit = "calc_normal" /\ call.returned

\* C12: calc_normal called with a bond count of 0 or 1 returns the normal
\* (0, 0, 1), a zero central-atom derivative and a zero per-neighbor derivative
\* tensor, whatever the bond rows hold.
C12_DefaultNormal ==
  (NormalReturned /\ call.arg.cont \in {0, 1}) =>
    /\ call.res.n = <<0, 0, 1>>
    /\ call.res.nn2 = 1
    /\ call.res.dri = ZeroMat
    /\ \A m \in 1..3 : call.res.dk[m] = ZeroMat

\* calc_normal has returned from a call with count 1 and three nonzero rows,
\* the first two not parallel
C12_Witness ==
  /\ NormalReturned
  /\ call.arg.cont = 1
  /\ call.arg.vet = << <<1, 0, 0>>, <<0, 1, 0>>, <<1, 1, 1>> >>

\* the first cont rows are nonzero and pairwise distinct
ValidBonds(vet, cont) ==
  \A i \in 1..cont :
    /\ vet[i] # ZeroVec
    /\ \A j \in 1..cont : i # j => vet[i] # vet[j]

\* C13: for 2 or 3 valid bond rows, collinear ones included, the vector
\* calc_normal normalizes has a nonzero magnitude, so that the normal returned
\* is a unit vector and no division by zero takes place.
C13_UnitNormal ==
  (NormalReturned /\ call.arg.cont \in {2, 3} /\ ValidBonds(call.arg.vet, call.arg.cont)) =>
    /\ call.res.nn2 = Dot(call.res.n, call.res.n)
    /\ call.res.nn2 # 0

\* ILP::ILP has returned or has ended the process
ConstructorReturned == call.unit = "ILP" /\ call.returned

\* the type pairs of the call whose record yields fewer than twelve fields
ShortRecords(arg) ==
  {tt \in TypePairs :
     /\ tt[1] < arg.num_types
     /\ tt[2] < arg.num_types
     /\ arg.counts[tt] # 12}

\* C14: the constructor ends with a fatal input error when num_types is
\* outside 1..MAX_TYPE_ILP and when a type pair's record yields fewer than
\* twelve fields; in both cases no entry of the offending record has been
\* stored and no buffer has been allocated, so that no ILP object exists for a
\* force evaluation.
C14_FatalBeforeStoring ==
  ConstructorReturned =>
    /\ call.arg.num_types \notin 1..MAX_TYPE_ILP =>
         /\ call.res.status = "fatal"
         /\ call.res.stored = {}
    /\ (call.arg.num_types \in 1..MAX_TYPE_ILP /\ ShortRecords(call.arg) # {}) =>
         call.res.status = "fatal"
    /\ call.res.status = "fatal" =>
         /\ ~call.res.allocated
         /\ call.res.at \notin call.res.stored
         /\ \A tt \in call.res.stored : call.arg.counts[tt] = 12
    /\ call.res.status = "constructed" =>
         /\ call.arg.num_types \in 1..MAX_TYPE_ILP
         /\ ShortRecords(call.arg) = {}

\* the constructor met a record of eleven fields for type pair (0, 1) after
\* the full record of pair (0, 0), and ended the process
C14_Witness ==
  /\ ConstructorReturned
  /\ call.arg.num_types = 2
  /\ call.arg.counts[<<0, 0>>] = 12
  /\ call.arg.counts[<<0, 1>>] = 11
  /\ call.res.status = "fatal"
  /\ call.res.at = <<0, 1>>
  /\ call.res.stored = {<<0, 0>>}

\* C15: at the end of a run the file holds exactly one line for each step at
\* which sample_block_temperature recorded a sample, in order, each line the
\* number_of_groups temperatures of that step followed by the two
\* energy-transfer values of that step.
C15_OneLinePerSample ==
  heat.pc = "done" =>
    /\ Len(heat.file) = Len(heat.sampled)
    /\ \A j \in 1..Len(heat.file) :
         heat.file[j] = SampleOf(heat.sampled[j], heat.para.number_of_groups)

\* C16: the binary search of reduce_force_many_body ends with offset equal to
\* the position k at which the index-ordered list of n2 holds n1, for every
\* list length and every position.
C16_SearchFindsPosition ==
  (call.unit = "BinarySearch" /\ call.returned) => call.res = call.arg.k

\* the valid secondary entries of atom n2: slots k < ilp_neighbor_number[n2]
ValidSlots(n2) == 0..(ilp_NN[n2] - 1)

\* the valid slots of atom n2 that hold atom n1
SlotsHolding(n2, n1) == {k \in ValidSlots(n2) : ilp_NL[IlpSlot(S, n2, k)] = n1}

\* the many-body lookup of atom n1 in the secondary list of atom n2 inspects
\* only valid entries of n2, reads the entry n2 wrote for n1 when n1 is among
\* them, and adds nothing when it is not
LookupIsSound(n1, n2) ==
  /\ ilp_NN[n2] <= MAX_ILP_NEIGHBOR
  /\ IlpProbes(S, NN, Mem, n1, n2) \subseteq ValidSlots(n2)
  /\ SlotsHolding(n2, n1) # {} => IlpOffset(S, NN, Mem, n1, n2) \in SlotsHolding(n2, n1)
  /\ SlotsHolding(n2, n1) = {} =>
       f12_ilp_neigh[n2 + S.N * IlpOffset(S, NN, Mem, n1, n2)] = EmptyForm

\* C17: in the many-body loop of the reduction the entry added for a secondary
\* neighbor n2 of n1 is the one n2 wrote for the slot k < ilp_neighbor_number[n2]
\* with ilp_neighbor_list[n2][k] = n1; the search inspects only such valid
\* slots (at most MAX_ILP_NEIGHBOR of them); when n1 is not among them, no
\* entry written for a different atom is added.
C17_ManyBodyLookup ==
  pc \in {"reduce", "done"} =>
    \A n1 \in Owned(S) : \A i1 \in 0..(ilp_NN[n1] - 1) :
      LookupIsSound(n1, ilp_NL[n1 + S.N * i1])

\* C18: once ILP_neighbor has run for an atom, the secondary count stored for
\* it is at most MAX_ILP_NEIGHBOR.
C18_StoredCountWithinCap ==
  \A n1 \in Owned(S) :
    n1 \in fin["neighbor"] => ilp_NN[n1] <= MAX_ILP_NEIGHBOR

\* the general neighbors of atom n1 that are distinct from n1, in its group,
\* and closer than the secondary cutoff of the type pair, in list order
ExpectedSecondary(s, pos_, n1) ==
  LET Passes(n2) ==
        /\ LabelOf(s, n1) = LabelOf(s, n2)
        /\ n2 # n1
        /\ Dot(Bond(s.box, pos_, n1, n2), Bond(s.box, pos_, n1, n2))
             < Para(s, n1, n2).rcutsq_ilp
  IN SelectSeq(NeighborsWithin(s, pos_, n1), Passes)

\* C19: when the filtered count does not exceed the cap, the secondary list
\* ILP_neighbor stores for atom n1 is the subsequence, in general-list order,
\* of the general neighbors n2 with group(n1) = group(n2), n2 # n1 and squared
\* minimum-image distance below rcutsq_ilp[type(n1)][type(n2)]; a distinct
\* atom of the group at zero distance is kept.
C19_SecondaryListIsFilter ==
  (/\ call.unit = "ILP_neighbor"
   /\ call.returned
   /\ Len(ExpectedSecondary(NeighborSystem(call.arg.label), call.arg.pos, call.arg.n1))
        <= MAX_ILP_NEIGHBOR)
  => call.res = ExpectedSecondary(NeighborSystem(call.arg.label), call.arg.pos, call.arg.n1)

\* calc_dTap has returned
DTapReturned == call.unit = "calc_dTap" /\ call.returned

\* C20: calc_Tap and calc_dTap apply the same cutoff test: for every r_ij >= 0
\* and Rcut > 0, calc_dTap takes its zero branch exactly when calc_Tap does
\* for the same pair, which is exactly when r_ij >= Rcut.
C20_SameCutoffTest ==
  DTapReturned =>
    /\ call.res.zero
         <=> calc_Tap(FromInt(call.arg.r_ij), Reciprocal(call.arg.Rcut), call.arg.fma).zero
    /\ call.res.zero <=> call.arg.r_ij >= call.arg.Rcut

\* displacements of the central atom
Displacements == {<<1, 0, 0>>, <<0, 1, 0>>, <<0, 0, 1>>, <<-1, 2, 3>>}

\* the bond rows after the central atom has moved by d
MoveCentralAtom(vet, d) == [m \in 1..3 |-> VSub(vet[m], d)]

\* C21: in the 3-bond branch of calc_normal the central-atom derivative is
\* zero, the averaged cross product is unchanged when one displacement is
\* subtracted from all three bonds, and for each component the derivatives of
\* the un-normalized vector w.r.t. the three neighbors sum to zero.
C21_CentralDerivativeZero ==
  (NormalReturned /\ call.arg.cont = 3) =>
    /\ call.res.dri = ZeroMat
    /\ \A d \in Displacements :
         calc_normal(MoveCentralAtom(call.arg.vet, d), 3).n = call.res.n
    /\ MatAdd3(call.res.dn1[1], call.res.dn1[2], call.res.dn1[3]) = ZeroMat

\* three bonds that span space, with a non-zero averaged cross product
C21_Witness ==
  /\ NormalReturned
  /\ call.arg.cont = 3
  /\ call.arg.vet = << <<1, 0, 0>>, <<0, 1, 0>>, <<1, 1, 1>> >>
  /\ call.res.nn2 # 0
  /\ call.res.dn1[1] # ZeroMat

\* the orders in which three bonds can be supplied
CyclicShifts == {<<2, 3, 1>>, <<3, 1, 2>>}
Swaps == {<<2, 1, 3>>, <<1, 3, 2>>, <<3, 2, 1>>}

\* the bond rows supplied in the order p
Permute(vet, p) == [m \in 1..3 |-> vet[p[m]]]

\* calc_normal has returned a normal of three bonds whose magnitude is not zero
ThreeBondNormal == NormalReturned /\ call.arg.cont = 3 /\ call.res.nn2 # 0

\* C22 as stated: in the 3-bond branch the normal is the same vector for every
\* order of the three bonds, cyclic shifts and swaps of two bonds alike.
C22_OrderIndependent ==
  ThreeBondNormal =>
    \A p \in CyclicShifts \cup Swaps :
      /\ calc_normal(Permute(call.arg.vet, p), 3).n = call.res.n
      /\ calc_normal(Permute(call.arg.vet, p), 3).nn2 = call.res.nn2

\* C22 amended: in the 3-bond branch a cyclic shift of the three bonds leaves
\* the normal unchanged and a swap of two bonds reverses it; the magnitude is
\* the same for every order.
C22_OrderUpToSign ==
  ThreeBondNormal =>
    /\ \A p \in CyclicShifts :
         /\ calc_normal(Permute(call.arg.vet, p), 3).n = call.res.n
         /\ calc_normal(Permute(call.arg.vet, p), 3).nn2 = call.res.nn2
    /\ \A p \in Swaps :
         /\ calc_normal(Permute(call.arg.vet, p), 3).n = VScale(-1, call.res.n)
         /\ calc_normal(Permute(call.arg.vet, p), 3).nn2 = call.res.nn2

\* three bonds in a plane whose normal is (0, 0, 1) in the order given
C22_Witness ==
  /\ ThreeBondNormal
  /\ call.arg.vet = << <<1, 0, 0>>, <<0, 1, 0>>, <<-1, 0, 0>> >>
  /\ call.res.n = <<0, 0, 2>>
  /\ calc_normal(Permute(call.arg.vet, <<2, 1, 3>>), 3).n = <<0, 0, -2>>

\* a run whose steps are 0 .. number_of_steps - 1
RunFromStepZero == heat.pc # "none" /\ heat.para.first_step = 0

\* with sampling disabled nothing is allocated, written, output or freed
NothingDone ==
  /\ heat.heap = "none"
  /\ heat.group_temp = <<>>
  /\ heat.sampled = <<>>
  /\ heat.outside = {}
  /\ heat.file = <<>>

\* C23: in a run of steps 0 .. number_of_steps - 1, every element
\* sample_block_temperature writes lies inside the buffer of
\* (number_of_groups + 2) * (number_of_steps / sample_interval) elements that
\* preprocess_heat allocated, also when number_of_steps is not a multiple of
\* sample_interval; with sampling disabled no buffer is allocated, written,
\* output or freed.
C23_WritesInsideBuffer ==
  RunFromStepZero =>
    /\ heat.outside = {}
    /\ ~heat.para.sample => NothingDone

====
